---------------------------- MODULE Spec2Model ----------------------------
(***************************************************************************)
(* A model of the Tiny_Travel_Guide retrieval pipeline:                    *)
(*   scripts/rag.py              normalize_boroughs, TravelData,           *)
(*                               build_context                             *)
(*   scripts/embedding_store.py  EmbeddingClient, cosine_similarity,       *)
(*                               top_k_by_embedding                        *)
(*   scripts/app.py              the prompts and main                      *)
(*   scripts/test_ollama.py      check_ollama                              *)
(*   data/generate_dataset.py    generate_nyc_hotel_dataset                *)
(*                                                                         *)
(* Python strings are sequences of one-character strings, so that strip()  *)
(* and lower() are computed and not assumed.  A cell of a pandas column    *)
(* that may be missing is a record [na, s] (text) or [kind, val] (number). *)
(***************************************************************************)
EXTENDS Integers, Sequences, FiniteSets, TLC

VARIABLES
    \* normalize_boroughs called on an input, then on its own output
    raw_boros, ordered, reordered, nb_pc,
    \* one EmbeddingClient: its cache, the backend requests made so far, the
    \* texts whose backend request succeeded, and the last call with its outcome
    \* and the texts it asked the backend for
    _cache, requests, succeeded, embed_call,
    \* one call of top_k_by_embedding against a backend
    backend, tk_query, tk_items, tk_k, tk_ret, tk_pc,
    \* one TravelData: its three tables, its use_embeddings flag, its embedder
    \* (made on first use, with its cache), and the last method call with its
    \* arguments, the candidates before re-ranking and the result
    hotels, attractions, restaurants, use_embeddings, _embedder, td_call,
    \* what build_context returned
    context,
    \* the raw hotel file, the dataset generate_nyc_hotel_dataset makes of it,
    \* and what the filters of hotels_for_budget keep of that dataset
    raw_hotels, nyc_hotels, ds_query, ds_pc,
    \* one call of check_ollama: its host argument, the OLLAMA_HOST variable,
    \* what the request meets, and what the call returned or raised
    ol_host, ol_env, server, ol_ret, ol_pc,
    \* one run of main: where it is, the answers of the prompts so far, the
    \* files of the data directory, and how lines 179-184 went
    main_pc, answers, data_files, main_run

vars_nb == <<raw_boros, ordered, reordered, nb_pc>>
vars_ec == <<_cache, requests, succeeded, embed_call>>
vars_tk == <<backend, tk_query, tk_items, tk_k, tk_ret, tk_pc>>

vars_td == <<hotels, attractions, restaurants, use_embeddings, _embedder, td_call, context>>

vars_ds == <<raw_hotels, nyc_hotels, ds_query, ds_pc>>
vars_ol == <<ol_host, ol_env, server, ol_ret, ol_pc>>
vars_mn == <<main_pc, answers, data_files, main_run>>

vars == <<vars_nb, vars_ec, vars_tk, vars_td, vars_ds, vars_ol, vars_mn>>

\* what the actions of one part leave alone: the variables of the other parts
not_nb == <<vars_ec, vars_tk, vars_td, vars_ds, vars_ol, vars_mn>>
not_ec == <<vars_nb, vars_tk, vars_td, vars_ds, vars_ol, vars_mn>>
not_tk == <<vars_nb, vars_ec, vars_td, vars_ds, vars_ol, vars_mn>>
not_td == <<vars_nb, vars_ec, vars_tk, vars_ds, vars_ol, vars_mn>>
not_ds == <<vars_nb, vars_ec, vars_tk, vars_td, vars_ol, vars_mn>>
not_ol == <<vars_nb, vars_ec, vars_tk, vars_td, vars_ds, vars_mn>>
not_mn == <<vars_nb, vars_ec, vars_tk, vars_td, vars_ds, vars_ol>>

---------------------------------------------------------------------------
(* Bounds of the model *)

\* longest list of borough names handed to normalize_boroughs
MaxBoros == 3
\* backend requests one EmbeddingClient is followed through
MaxRequests == 4
\* longest list of items handed to top_k_by_embedding
MaxItems == 3
\* most rows of a CSV file
MaxRows == 2
\* most entries of "models" in the answer of /api/tags
MaxModels == 2
\* largest limit a method of TravelData is called with
MaxLimit == 2

---------------------------------------------------------------------------
(* Python str operations *)

UpperLetters == <<"A", "B", "C", "D", "E", "F", "G", "H", "I", "J", "K", "L", "M",
                  "N", "O", "P", "Q", "R", "S", "T", "U", "V", "W", "X", "Y", "Z">>

LowerLetters == <<"a", "b", "c", "d", "e", "f", "g", "h", "i", "j", "k", "l", "m",
                  "n", "o", "p", "q", "r", "s", "t", "u", "v", "w", "x", "y", "z">>

Whitespace == {" ", "\t", "\n"}

\* str.lower() on one character
LowerChar(c) ==
    IF \E i \in 1..26 : UpperLetters[i] = c
    THEN LowerLetters[CHOOSE i \in 1..26 : UpperLetters[i] = c]
    ELSE c

\* str.lower()
Lower(s) == [i \in 1..Len(s) |-> LowerChar(s[i])]

RECURSIVE LStrip(_)
LStrip(s) ==
    IF s # <<>> /\ Head(s) \in Whitespace THEN LStrip(Tail(s)) ELSE s

RECURSIVE RStrip(_)
RStrip(s) ==
    IF s # <<>> /\ s[Len(s)] \in Whitespace
    THEN RStrip(SubSeq(s, 1, Len(s) - 1))
    ELSE s

\* str.strip()
Strip(s) == RStrip(LStrip(s))

\* a Python value that is a str or None
Str(s) == [na |-> FALSE, s |-> s]
None == [na |-> TRUE, s |-> <<>>]

\* (x or ""): None and the empty string both give ""
OrEmpty(x) == IF x.na THEN <<>> ELSE x.s

---------------------------------------------------------------------------
(* rag.py: BOROUGH_ALIASES and normalize_boroughs *)

Manhattan == <<"M", "a", "n", "h", "a", "t", "t", "a", "n">>
Brooklyn == <<"B", "r", "o", "o", "k", "l", "y", "n">>
Queens == <<"Q", "u", "e", "e", "n", "s">>
Bronx == <<"B", "r", "o", "n", "x">>
StatenIsland == <<"S", "t", "a", "t", "e", "n", " ", "I", "s", "l", "a", "n", "d">>

\* the dict as a sequence of <<key, value>> pairs, in source order
BOROUGH_ALIASES ==
    << <<(<<"m", "a", "n", "h", "a", "t", "t", "a", "n">>), Manhattan>>,
       <<(<<"b", "r", "o", "o", "k", "l", "y", "n">>), Brooklyn>>,
       <<(<<"q", "u", "e", "e", "n", "s">>), Queens>>,
       <<(<<"b", "r", "o", "n", "x">>), Bronx>>,
       <<(<<"s", "t", "a", "t", "e", "n", " ", "i", "s", "l", "a", "n", "d">>), StatenIsland>>,
       <<(<<"s", "t", "a", "t", "e", "n", "_", "i", "s", "l", "a", "n", "d">>), StatenIsland>>,
       <<(<<"s", "t", "a", "t", "e", "n", "i", "s", "l", "a", "n", "d">>), StatenIsland>> >>

AliasKeys == {BOROUGH_ALIASES[i][1] : i \in DOMAIN BOROUGH_ALIASES}
AliasValues == {BOROUGH_ALIASES[i][2] : i \in DOMAIN BOROUGH_ALIASES}

\* BOROUGH_ALIASES[key], for key in the dict
AliasOf(key) ==
    BOROUGH_ALIASES[CHOOSE i \in DOMAIN BOROUGH_ALIASES : BOROUGH_ALIASES[i][1] = key][2]

\* key = (boro or "").strip().lower()
BoroKey(boro) == Lower(Strip(OrEmpty(boro)))

\* first loop: names of the recognised entries, in input order
RECURSIVE AliasNames(_)
AliasNames(raw) ==
    IF raw = <<>> THEN <<>>
    ELSE LET key == BoroKey(Head(raw))
         IN  IF key = <<>> THEN AliasNames(Tail(raw))
             ELSE IF key \in AliasKeys
                  THEN <<AliasOf(key)>> \o AliasNames(Tail(raw))
                  ELSE AliasNames(Tail(raw))

\* second loop: deduplicate while preserving order
RECURSIVE Dedup(_, _)
Dedup(names, seen) ==
    IF names = <<>> THEN <<>>
    ELSE IF Head(names) \notin seen
         THEN <<Head(names)>> \o Dedup(Tail(names), seen \cup {Head(names)})
         ELSE Dedup(Tail(names), seen)

NormalizeBoroughsNoStrip(raw_boros_) ==
    LET RECURSIVE Names(_)
        Names(raw) ==
            IF raw = <<>> THEN <<>>
            ELSE LET key == Lower(OrEmpty(Head(raw)))
                 IN  IF key \in AliasKeys
                     THEN <<AliasOf(key)>> \o Names(Tail(raw))
                     ELSE Names(Tail(raw))
    IN  Dedup(Names(raw_boros_), {})

normalize_boroughs(raw_boros_) == Dedup(AliasNames(raw_boros_), {})

\* the entries a caller may pass: labels, aliases, other cases, padding,
\* blanks, None and names that are no borough
RawBoroInputs ==
    { None,
      Str(<<>>),
      Str(<<" ", " ">>),
      Str(Bronx),
      Str(<<" ", "B", "R", "O", "N", "X", " ">>),
      Str(<<"\t", "Q", "u", "e", "e", "n", "s", "\n">>),
      Str(StatenIsland),
      Str(<<"s", "t", "a", "t", "e", "n", "_", "i", "s", "l", "a", "n", "d">>),
      Str(<<"S", "t", "a", "t", "e", "n", " ", " ", "I", "s", "l", "a", "n", "d">>),
      Str(<<"H", "a", "r", "l", "e", "m">>) }

SeqsUpTo(S, n) == UNION {[1..k -> S] : k \in 0..n}

\* ordered = normalize_boroughs(raw_boros)
Normalize ==
    /\ nb_pc = "input"
    /\ ordered' = normalize_boroughs(raw_boros)
    /\ nb_pc' = "normalized"
    /\ UNCHANGED <<raw_boros, reordered, not_nb>>

\* normalize_boroughs applied to its own output
NormalizeAgain ==
    /\ nb_pc = "normalized"
    /\ reordered' = normalize_boroughs([i \in DOMAIN ordered |-> Str(ordered[i])])
    /\ nb_pc' = "renormalized"
    /\ UNCHANGED <<raw_boros, ordered, not_nb>>

NextNormalize == Normalize \/ NormalizeAgain

---------------------------------------------------------------------------
(* embedding_store.py: EmbeddingClient *)

\* What one request to the backend does: ollama.embeddings returns a dict with
\* a non-empty "embedding" (kind "vec"), a dict with an empty or absent one
\* ("empty"), something that is no dict ("notdict"), or raises ("error"); the
\* import of the ollama package may fail before any request ("nomodule").
Vec(v) == [kind |-> "vec", vec |-> v]
Fails(kind) == [kind |-> kind, vec |-> <<>>]
FailKinds == {"empty", "notdict", "error", "nomodule"}

\* vec = resp.get("embedding") if isinstance(resp, dict) else None
RespVec(outcome) == IF outcome.kind = "vec" THEN outcome.vec ELSE <<>>

EmbedKeepsFailure(cache, text, outcome) ==
    IF text \in DOMAIN cache
    THEN [raised |-> FALSE, vec |-> cache[text], cache |-> cache, requested |-> FALSE]
    ELSE [raised |-> RespVec(outcome) = <<>>,
          vec |-> RespVec(outcome),
          cache |-> cache @@ (text :> RespVec(outcome)),
          requested |-> outcome.kind # "nomodule"]

\* EmbeddingClient.embed on a client whose cache is `cache`, the backend
\* answering `outcome` if it is asked
embed(cache, text, outcome) ==
    IF text \in DOMAIN cache
    THEN [raised |-> FALSE, vec |-> cache[text], cache |-> cache, requested |-> FALSE]
    ELSE IF outcome.kind = "nomodule"
    THEN [raised |-> TRUE, vec |-> <<>>, cache |-> cache, requested |-> FALSE]
    ELSE IF outcome.kind = "error"
    THEN [raised |-> TRUE, vec |-> <<>>, cache |-> cache, requested |-> TRUE]
    ELSE IF RespVec(outcome) = <<>>
    THEN [raised |-> TRUE, vec |-> <<>>, cache |-> cache, requested |-> TRUE]
    ELSE [raised |-> FALSE, vec |-> RespVec(outcome),
          cache |-> cache @@ (text :> RespVec(outcome)), requested |-> TRUE]

\* EmbeddingClient.embed_many: [self.embed(t) for t in texts], the backend
\* answering bk[t] for text t; the first failure ends the call
RECURSIVE embed_many(_, _, _)
embed_many(cache, texts, bk) ==
    IF texts = <<>>
    THEN [raised |-> FALSE, vecs |-> <<>>, cache |-> cache, requested |-> <<>>]
    ELSE LET r == embed(cache, Head(texts), bk[Head(texts)])
             asked == IF r.requested THEN <<Head(texts)>> ELSE <<>>
         IN  IF r.raised
             THEN [raised |-> TRUE, vecs |-> <<>>, cache |-> r.cache, requested |-> asked]
             ELSE LET rest == embed_many(r.cache, Tail(texts), bk)
                  IN  [raised |-> rest.raised,
                       vecs |-> IF rest.raised THEN <<>> ELSE <<r.vec>> \o rest.vecs,
                       cache |-> rest.cache,
                       requested |-> asked \o rest.requested]

\* the texts and the answers the client is followed on
EmbedTexts == {"t1", "t2", "t3"}
EmbedVecs == {<<1, 0>>, <<0, 0>>}
EmbedOutcomes == {Vec(v) : v \in EmbedVecs} \cup {Fails(k) : k \in FailKinds}

NoCall == [op |-> "none", texts |-> <<>>, raised |-> FALSE, vecs |-> <<>>, asked |-> <<>>]

\* client.embed(text)
Embed(text, outcome) ==
    /\ requests < MaxRequests
    /\ LET r == embed(_cache, text, outcome)
       IN  /\ _cache' = r.cache
           /\ requests' = requests + (IF r.requested THEN 1 ELSE 0)
           /\ succeeded' = succeeded \cup
                 (IF r.requested /\ outcome.kind = "vec" /\ outcome.vec # <<>>
                  THEN {text} ELSE {})
           /\ embed_call' = [op |-> "embed", texts |-> <<text>>, raised |-> r.raised,
                             vecs |-> IF r.raised THEN <<>> ELSE <<r.vec>>,
                             asked |-> IF r.requested THEN <<text>> ELSE <<>>]
    /\ UNCHANGED not_ec

\* client.embed_many(texts)
EmbedMany(texts, bk) ==
    /\ requests + Len(texts) <= MaxRequests
    /\ LET r == embed_many(_cache, texts, bk)
       IN  /\ _cache' = r.cache
           /\ requests' = requests + Len(r.requested)
           /\ succeeded' = succeeded \cup
                 {r.requested[i] : i \in {j \in DOMAIN r.requested :
                        bk[r.requested[j]].kind = "vec" /\ bk[r.requested[j]].vec # <<>>}}
           /\ embed_call' = [op |-> "embed_many", texts |-> texts, raised |-> r.raised,
                             vecs |-> r.vecs, asked |-> r.requested]
    /\ UNCHANGED not_ec

NextEmbed ==
    \/ \E text \in EmbedTexts, outcome \in EmbedOutcomes : Embed(text, outcome)
    \/ \E texts \in SeqsUpTo(EmbedTexts, 2) :
          \E bk \in [{texts[i] : i \in DOMAIN texts} -> EmbedOutcomes] :
              EmbedMany(texts, bk)

---------------------------------------------------------------------------
(* embedding_store.py: cosine_similarity and top_k_by_embedding *)

Min(a, b) == IF a <= b THEN a ELSE b
Max(a, b) == IF a >= b THEN a ELSE b

\* sum(a * b for a, b in zip(vec_a, vec_b))
RECURSIVE Dot(_, _)
Dot(vec_a, vec_b) ==
    IF vec_a = <<>> \/ vec_b = <<>> THEN 0
    ELSE Head(vec_a) * Head(vec_b) + Dot(Tail(vec_a), Tail(vec_b))

\* The similarity dot / (norm_a * norm_b) is kept exact as the pair of the
\* dot product and the squared product of the norms: [num, den] stands for
\* num / sqrt(den), and 0.0 for a zero norm is [0, 1].  A length mismatch
\* raises ValueError.
cosine_similarity(vec_a, vec_b) ==
    IF Len(vec_a) # Len(vec_b)
    THEN [raised |-> TRUE, num |-> 0, den |-> 1]
    ELSE LET dot == Dot(vec_a, vec_b)
             norm_a2 == Dot(vec_a, vec_a)
             norm_b2 == Dot(vec_b, vec_b)
         IN  IF norm_a2 = 0 \/ norm_b2 = 0
             THEN [raised |-> FALSE, num |-> 0, den |-> 1]
             ELSE [raised |-> FALSE, num |-> dot, den |-> norm_a2 * norm_b2]

\* x < y for two similarities: x |-> sign(x) * x^2 is increasing, and the
\* denominators are positive
SignedSquare(n) == IF n >= 0 THEN n * n ELSE -(n * n)
SimLess(x, y) == SignedSquare(x.num) * y.den < SignedSquare(y.num) * x.den

\* list.sort(key=score, reverse=True) is stable: an element goes after every
\* element whose score is not less than its own
RECURSIVE InsertDescending(_, _)
InsertDescending(sorted, x) ==
    IF sorted = <<>> THEN <<x>>
    ELSE IF SimLess(Head(sorted).score, x.score)
         THEN <<x>> \o sorted
         ELSE <<Head(sorted)>> \o InsertDescending(Tail(sorted), x)

RECURSIVE InsertAscending(_, _)
InsertAscending(sorted, x) ==
    IF sorted = <<>> THEN <<x>>
    ELSE IF SimLess(x.score, Head(sorted).score)
         THEN <<x>> \o sorted
         ELSE <<Head(sorted)>> \o InsertAscending(Tail(sorted), x)

RECURSIVE SortAscending(_)
SortAscending(scores) ==
    IF scores = <<>> THEN <<>>
    ELSE InsertAscending(SortAscending(SubSeq(scores, 1, Len(scores) - 1)),
                         scores[Len(scores)])

\* scores.sort(key=lambda x: x[1], reverse=True)
RECURSIVE SortScores(_)
SortScores(scores) ==
    IF scores = <<>> THEN <<>>
    ELSE InsertDescending(SortScores(SubSeq(scores, 1, Len(scores) - 1)),
                          scores[Len(scores)])

\* seq[:k]
SliceTo(seq, k) ==
    IF k >= 0 THEN SubSeq(seq, 1, Min(k, Len(seq)))
    ELSE SubSeq(seq, 1, Max(Len(seq) + k, 0))

\* lines 67-71 of top_k_by_embedding, for a query embedded as q and items
\* embedded as m: the scores, the sort and the slice.  Indices count from 0.
TopKScored(q, m, items, k) ==
    LET scores == [i \in DOMAIN items |->
                      [idx |-> i - 1, score |-> cosine_similarity(q.vec, m.vecs[i])]]
    IN  IF \E i \in DOMAIN scores : scores[i].score.raised
        THEN [raised |-> TRUE, exc |-> "ValueError", idxs |-> <<>>, cache |-> m.cache]
        ELSE LET top == SliceTo(SortScores(scores), k)
             IN  [raised |-> FALSE, exc |-> "none",
                  idxs |-> [i \in DOMAIN top |-> top[i].idx],
                  cache |-> m.cache]

\* line 66 on, for what embedder.embed_many(item_list) gave
TopKItems(q, m, items, k) ==
    IF m.raised
    THEN [raised |-> TRUE, exc |-> "RuntimeError", idxs |-> <<>>, cache |-> m.cache]
    ELSE TopKScored(q, m, items, k)

\* line 63 on, for what embedder.embed(query) gave
TopKQuery(q, items, bk, k) ==
    IF q.raised
    THEN [raised |-> TRUE, exc |-> "RuntimeError", idxs |-> <<>>, cache |-> q.cache]
    ELSE IF items = <<>>
    THEN [raised |-> FALSE, exc |-> "none", idxs |-> <<>>, cache |-> q.cache]
    ELSE TopKItems(q, embed_many(q.cache, items, bk), items, k)

\* top_k_by_embedding(query, items, embedder, k) on a client whose cache is
\* `cache`, the backend answering bk[t] for text t
top_k_by_embedding(query, items, cache, bk, k) ==
    TopKQuery(embed(cache, query, bk[query]), items, bk, k)

\* the texts, and what the backend may answer for one
TopKTexts == {"t1", "t2", "t3"}
TopKOutcomes ==
    {Vec(<<1, 0>>), Vec(<<1, 1>>), Vec(<<0, 1>>), Vec(<<1>>), Fails("error")}

NoReturn == [raised |-> FALSE, exc |-> "none", idxs |-> <<>>]

\* tk_ret = top_k_by_embedding(tk_query, tk_items, EmbeddingClient(), tk_k)
TopK ==
    /\ tk_pc = "call"
    /\ LET r == top_k_by_embedding(tk_query, tk_items, <<>>, backend, tk_k)
       IN  tk_ret' = [raised |-> r.raised, exc |-> r.exc, idxs |-> r.idxs]
    /\ tk_pc' = "returned"
    /\ UNCHANGED <<backend, tk_query, tk_items, tk_k, not_tk>>

NextTopK == TopK

---------------------------------------------------------------------------
(* rag.py: the tables of TravelData *)

\* A cell of a numeric column as read_csv gives it: a number, a missing value,
\* an infinity, or (in a column read as text) a string that parses as a
\* number or one that does not.
Num(n) == [kind |-> "num", val |-> n]
NaN == [kind |-> "nan", val |-> 0]
Inf == [kind |-> "inf", val |-> 0]
NumText(n) == [kind |-> "numtext", val |-> n]
Text == [kind |-> "text", val |-> 0]

\* pd.to_numeric(cell, errors="coerce")
to_numeric(cell) ==
    CASE cell.kind = "num" -> cell
      [] cell.kind = "numtext" -> Num(cell.val)
      [] cell.kind = "inf" -> Inf
      [] cell.kind = "nan" -> NaN
      [] OTHER -> NaN

\* x < y and x >= y on floats: false as soon as one side is NaN
FloatLess(x, y) ==
    /\ x.kind # "nan" /\ y.kind # "nan"
    /\ \/ x.kind = "num" /\ y.kind = "num" /\ x.val < y.val
       \/ x.kind = "num" /\ y.kind = "inf"

FloatGeq(x, y) ==
    /\ x.kind # "nan" /\ y.kind # "nan"
    /\ \/ x.kind = "num" /\ y.kind = "num" /\ x.val >= y.val
       \/ x.kind = "inf"

\* str(n) for an integer n >= 0
DigitChars == <<"0", "1", "2", "3", "4", "5", "6", "7", "8", "9">>
RECURSIVE Digits(_)
Digits(n) ==
    IF n < 10 THEN <<DigitChars[n + 1]>>
    ELSE Digits(n \div 10) \o <<DigitChars[(n % 10) + 1]>>

\* str(value) of a numeric cell taken from a row: a column holding a NaN or an
\* infinity is a float column, whose numbers print with ".0"
StrNum(cell, float_column) ==
    CASE cell.kind = "nan" -> <<"n", "a", "n">>
      [] cell.kind = "inf" -> <<"i", "n", "f">>
      [] OTHER -> Digits(cell.val) \o (IF float_column THEN <<".", "0">> ELSE <<>>)

\* str(value) of a text cell: a missing one prints as nan
StrText(cell) == IF cell.na THEN <<"n", "a", "n">> ELSE cell.s

\* sep.join(parts)
RECURSIVE Join(_, _)
Join(sep, parts) ==
    IF parts = <<>> THEN <<>>
    ELSE IF Len(parts) = 1 THEN parts[1]
    ELSE parts[1] \o sep \o Join(sep, Tail(parts))

\* A DataFrame: the set of its column names and its rows in order; a row keeps
\* the index label read_csv gave it.
Df(cols, rows) == [cols |-> cols, rows |-> rows]

\* df[mask]: the rows (or the items of a list) whose entry in the mask is true
RECURSIVE Masked(_, _)
Masked(rows, mask) ==
    IF rows = <<>> THEN <<>>
    ELSE (IF Head(mask) THEN <<Head(rows)>> ELSE <<>>) \o Masked(Tail(rows), Tail(mask))

\* df["BoroName"].str.lower().isin({b.lower() for b in boros}): a missing name
\* is in no set
InBoros(row, boros) ==
    /\ ~row.BoroName.na
    /\ \E i \in DOMAIN boros : Lower(row.BoroName.s) = Lower(boros[i])

FilterBorosKeepsMissing(df, boros) ==
    IF boros = <<>> THEN df
    ELSE LET mask == [i \in DOMAIN df.rows |->
                         df.rows[i].BoroName.na \/ InBoros(df.rows[i], boros)]
             filtered == Masked(df.rows, mask)
         IN  IF filtered = <<>> /\ boros # <<>>
             THEN df
             ELSE Df(df.cols, filtered)

\* TravelData._filter_boros
_filter_boros(df, boros) ==
    IF boros = <<>> THEN df
    ELSE LET mask == [i \in DOMAIN df.rows |-> InBoros(df.rows[i], boros)]
             filtered == Masked(df.rows, mask)
         IN  IF filtered = <<>> /\ boros # <<>>
             THEN df
             ELSE Df(df.cols, filtered)

---------------------------------------------------------------------------
(* rag.py: BUDGET_TO_PRICE and the filters of TravelData.hotels_for_budget *)

BudgetKeys ==
    {<<"l", "o", "w">>, <<"m", "e", "d", "i", "u", "m">>, <<"h", "i", "g", "h">>}

\* BUDGET_TO_PRICE[key] as the pair (low, high), for key a key of the dict
BUDGET_TO_PRICE(key) ==
    CASE key = <<"l", "o", "w">> -> <<Num(0), Num(100)>>
      [] key = <<"m", "e", "d", "i", "u", "m">> -> <<Num(100), Num(300)>>
      [] key = <<"h", "i", "g", "h">> -> <<Num(300), Inf>>

\* budget_key = (budget or "").lower()
BudgetKey(budget) == Lower(OrEmpty(budget))

\* df[col] = pd.to_numeric(df[col], errors="coerce") for high_rate and low_rate
CoerceRates(df) ==
    Df(df.cols,
       [i \in DOMAIN df.rows |->
           [df.rows[i] EXCEPT
               !.high_rate = IF "high_rate" \in df.cols THEN to_numeric(@) ELSE @,
               !.low_rate = IF "low_rate" \in df.cols THEN to_numeric(@) ELSE @]])

\* df[df["budget_tier"] == budget_key]
TierFilter(df, budget_key) ==
    Df(df.cols,
       Masked(df.rows,
              [i \in DOMAIN df.rows |->
                  ~df.rows[i].budget_tier.na /\ df.rows[i].budget_tier.s = budget_key]))

RangeFilterClosed(df, price_range) ==
    Df(df.cols,
       Masked(df.rows,
              [i \in DOMAIN df.rows |->
                  /\ FloatGeq(df.rows[i].high_rate, price_range[1])
                  /\ ~FloatLess(price_range[2], df.rows[i].high_rate)]))

\* df[(df["high_rate"] >= low) & (df["high_rate"] < high)]
RangeFilter(df, price_range) ==
    Df(df.cols,
       Masked(df.rows,
              [i \in DOMAIN df.rows |->
                  /\ FloatGeq(df.rows[i].high_rate, price_range[1])
                  /\ FloatLess(df.rows[i].high_rate, price_range[2])]))

\* lines 93-106: the borough filter, the numeric rates, the tier filter and
\* the price filter
HotelsFiltered(hotels_, boros, budget) ==
    LET budget_key == BudgetKey(budget)
        df0 == CoerceRates(_filter_boros(hotels_, boros))
        df1 == IF "budget_tier" \in df0.cols THEN TierFilter(df0, budget_key) ELSE df0
    IN  IF budget_key \in BudgetKeys /\ "high_rate" \in df1.cols
        THEN RangeFilter(df1, BUDGET_TO_PRICE(budget_key))
        ELSE df1

\* How two cells of one sort key compare, a NaN last whatever the direction:
\* -1 when x sorts first, 1 when y does, 0 when they tie.
KeyOrder(x, y, ascending) ==
    LET x_na == x.kind \notin {"num", "inf"}
        y_na == y.kind \notin {"num", "inf"}
    IN  IF x_na /\ y_na THEN 0
        ELSE IF x_na THEN 1
        ELSE IF y_na THEN -1
        ELSE IF FloatLess(x, y) THEN (IF ascending THEN -1 ELSE 1)
        ELSE IF FloatLess(y, x) THEN (IF ascending THEN 1 ELSE -1)
        ELSE 0

\* row a sorts strictly before row b under sort_values(["star_rating",
\* "high_rate", "low_rate"], ascending=[False, True, True], na_position="last")
HotelBefore(a, b) ==
    LET s == KeyOrder(a.star_rating, b.star_rating, FALSE)
        h == KeyOrder(a.high_rate, b.high_rate, TRUE)
        l == KeyOrder(a.low_rate, b.low_rate, TRUE)
    IN  \/ s = -1
        \/ s = 0 /\ h = -1
        \/ s = 0 /\ h = 0 /\ l = -1

\* the sort on several keys is stable: a row goes after the rows it ties with
RECURSIVE InsertHotel(_, _)
InsertHotel(sorted, row) ==
    IF sorted = <<>> THEN <<row>>
    ELSE IF HotelBefore(row, Head(sorted))
         THEN <<row>> \o sorted
         ELSE <<Head(sorted)>> \o InsertHotel(Tail(sorted), row)

RECURSIVE SortHotels(_)
SortHotels(rows) ==
    IF rows = <<>> THEN <<>>
    ELSE InsertHotel(SortHotels(SubSeq(rows, 1, Len(rows) - 1)), rows[Len(rows)])

\* df.sample(n=n): n of the rows, in an order drawn at random
Samples(rows, n) ==
    {[i \in 1..n |-> rows[f[i]]] :
        f \in {g \in [1..n -> DOMAIN rows] : \A i, j \in 1..n : i # j => g[i] # g[j]}}

\* df.head(n)
HeadRows(rows, n) == SubSeq(rows, 1, Min(n, Len(rows)))

\* lines 112-115: what the hotels may be after the top slice is sampled
HotelSamples(rows, limit) ==
    IF Len(rows) > limit
    THEN Samples(HeadRows(rows, limit * 3), limit)
    ELSE {rows}

\* df[cols]: the columns kept of the hotels; budget_tier is not among them
HotelColumns ==
    {"name", "address1", "city", "state_province", "postal_code", "latitude",
     "longitude", "star_rating", "high_rate", "low_rate", "BoroName"}

ProjectHotels(df) ==
    Df(df.cols \cap HotelColumns,
       [i \in DOMAIN df.rows |-> [df.rows[i] EXCEPT !.budget_tier = None]])

---------------------------------------------------------------------------
(* rag.py: the re-ranking of the candidates *)

Sep == <<" ", "|", " ">>
Comma == <<",", " ">>

\* ', '.join(boros) or 'all boroughs'
BorosOrAll(boros) ==
    IF Join(Comma, boros) = <<>>
    THEN <<"a", "l", "l", " ", "b", "o", "r", "o", "u", "g", "h", "s">>
    ELSE Join(Comma, boros)

\* budget or 'medium'
BudgetOrMedium(budget) ==
    IF OrEmpty(budget) = <<>> THEN <<"m", "e", "d", "i", "u", "m">> ELSE budget.s

\* f"hotel options for {...} in NYC at {budget or 'medium'} budget"
HotelQuery(boros, budget) ==
    <<"h", "o", "t", "e", "l", " ", "o", "p", "t", "i", "o", "n", "s", " ", "f", "o", "r", " ">>
    \o BorosOrAll(boros)
    \o <<" ", "i", "n", " ", "N", "Y", "C", " ", "a", "t", " ">>
    \o BudgetOrMedium(budget)
    \o <<" ", "b", "u", "d", "g", "e", "t">>

\* f"NYC attractions clustered per borough: {...}"
AttractionQuery(boros) ==
    <<"N", "Y", "C", " ", "a", "t", "t", "r", "a", "c", "t", "i", "o", "n", "s", " ",
      "c", "l", "u", "s", "t", "e", "r", "e", "d", " ", "p", "e", "r", " ",
      "b", "o", "r", "o", "u", "g", "h", ":", " ">>
    \o BorosOrAll(boros)

\* f"NYC trip food near attractions in {...}"
RestaurantQuery(boros) ==
    <<"N", "Y", "C", " ", "t", "r", "i", "p", " ", "f", "o", "o", "d", " ",
      "n", "e", "a", "r", " ", "a", "t", "t", "r", "a", "c", "t", "i", "o", "n", "s", " ",
      "i", "n", " ">>
    \o BorosOrAll(boros)

\* whether a numeric column of a table is a float column
FloatColumn(cells) == \E i \in DOMAIN cells : cells[i].kind \in {"nan", "inf"}

\* the text of one hotel: name, star_rating and BoroName joined by " | "
HotelText(row, star_float) ==
    Join(Sep, <<row.name, StrNum(row.star_rating, star_float), StrText(row.BoroName)>>)

\* the text of one attraction: Tourist_Spot and BoroName
AttractionText(row) == Join(Sep, <<row.Tourist_Spot, StrText(row.BoroName)>>)

\* the text of one restaurant: every column kept, Name, Rating and BoroName
RestaurantText(row, rating_float) ==
    Join(Sep, <<row.Name, StrNum(row.Rating, rating_float), StrText(row.BoroName)>>)

RerankPropagates(rows, texts, query, cache, bk, limit) ==
    LET r == top_k_by_embedding(query, texts, cache, bk, Min(limit, Len(texts)))
    IN  [raised |-> r.raised, exc |-> r.exc,
         rows |-> [i \in DOMAIN r.idxs |-> rows[r.idxs[i] + 1]],
         cache |-> r.cache]

RerankDropsRows(rows, texts, query, cache, bk, limit) ==
    LET r == top_k_by_embedding(query, texts, cache, bk, Min(limit, Len(texts)))
    IN  [raised |-> FALSE, exc |-> r.exc,
         rows |-> [i \in DOMAIN r.idxs |-> rows[r.idxs[i] + 1]],
         cache |-> r.cache]

\* df = df.iloc[idxs] for what top_k_by_embedding gave, and `except Exception:
\* pass` when it raised
Reranked(rows, r) ==
    IF r.raised
    THEN [raised |-> FALSE, exc |-> r.exc, rows |-> rows, cache |-> r.cache]
    ELSE [raised |-> FALSE, exc |-> "none",
          rows |-> [i \in DOMAIN r.idxs |-> rows[r.idxs[i] + 1]],
          cache |-> r.cache]

\* The try block that ends each of the three methods: idxs =
\* top_k_by_embedding(query, texts, embedder, k=min(limit, len(texts))) and
\* df = df.iloc[idxs]; on any exception the rows stay as they were.  exc is
\* the exception the block swallowed, raised whether one leaves the method.
Rerank(rows, texts, query, cache, bk, limit) ==
    Reranked(rows, top_k_by_embedding(query, texts, cache, bk, Min(limit, Len(texts))))

\* what the backend may answer for one text during a call
TravelOutcomes == {Vec(<<1, 0>>), Vec(<<0, 1>>), Fails("error")}

\* the backends over the texts of one call
Backends(query, texts) ==
    [{query} \cup {texts[i] : i \in DOMAIN texts} -> TravelOutcomes]

---------------------------------------------------------------------------
(* rag.py: TravelData.hotels_for_budget, pick_attractions, pick_restaurants *)

NoContext == [built |-> FALSE]

NoTravelCall ==
    [op |-> "none", boros |-> <<>>, budget |-> None, limit |-> 0, query |-> <<>>,
     candidates |-> <<>>, result |-> <<>>, raised |-> FALSE, exc |-> "none",
     embedded |-> FALSE, rerank_exc |-> "none"]

\* `return df` after the try block gave r: rerank_exc is the exception
\* top_k_by_embedding raised inside the try block, "none" if it returned
Returned(r) ==
    [raised |-> r.raised, exc |-> IF r.raised THEN r.exc ELSE "none",
     rows |-> IF r.raised THEN <<>> ELSE r.rows, cache |-> r.cache,
     embedded |-> TRUE, rerank_exc |-> r.exc]

\* The end of the three methods, from `embedder = self.embedder` on: without
\* an embedder (use_embeddings false) the candidates are returned as they are,
\* with one they are re-ranked.
Tail_(use_embeddings_, rows, texts, query, cache, bk, limit) ==
    IF ~use_embeddings_
    THEN [raised |-> FALSE, exc |-> "none", rows |-> rows, cache |-> cache,
          embedded |-> FALSE, rerank_exc |-> "none"]
    ELSE Returned(Rerank(rows, texts, query, cache, bk, limit))

\* the method returns (or raises) and the call is recorded; the embedder
\* property makes the client on first use
Recorded(op, boros, budget, limit, query, rows, r) ==
    /\ td_call' = [op |-> op, boros |-> boros, budget |-> budget, limit |-> limit,
                   query |-> query, candidates |-> rows, result |-> r.rows,
                   raised |-> r.raised, exc |-> r.exc,
                   embedded |-> r.embedded, rerank_exc |-> r.rerank_exc]
    /\ _embedder' = [created |-> _embedder.created \/ use_embeddings,
                     cache |-> r.cache]

Finish(op, boros, budget, limit, query, rows, texts) ==
    \E bk \in IF use_embeddings THEN Backends(query, texts) ELSE {<<>>} :
        Recorded(op, boros, budget, limit, query, rows,
                 Tail_(use_embeddings, rows, texts, query, _embedder.cache, bk, limit))

\* sort_values raises KeyError for a sort column the table lacks
HotelsRaise(hotels_) == ~({"star_rating", "high_rate", "low_rate"} \subseteq hotels_.cols)

\* lines 93-134: what the hotels may be before the re-ranking
HotelCandidates(hotels_, boros, budget, limit) ==
    LET df == HotelsFiltered(hotels_, boros, budget)
    IN  {ProjectHotels(Df(df.cols, sampled)).rows :
            sampled \in HotelSamples(SortHotels(df.rows), limit)}

HotelTexts(hotels_, rows) ==
    LET star_float ==
            FloatColumn([i \in DOMAIN hotels_.rows |-> hotels_.rows[i].star_rating])
    IN  [i \in DOMAIN rows |-> HotelText(rows[i], star_float)]

\* data.hotels_for_budget(boros, budget, limit)
HotelsForBudget(boros, budget, limit) ==
    /\ td_call.op = "none"
    /\ IF HotelsRaise(hotels)
       THEN /\ td_call' = [NoTravelCall EXCEPT !.op = "hotels_for_budget",
                              !.boros = boros, !.budget = budget, !.limit = limit,
                              !.raised = TRUE, !.exc = "KeyError"]
            /\ UNCHANGED _embedder
       ELSE \E rows \in HotelCandidates(hotels, boros, budget, limit) :
                Finish("hotels_for_budget", boros, budget, limit,
                       HotelQuery(boros, budget), rows, HotelTexts(hotels, rows))
    /\ UNCHANGED <<hotels, attractions, restaurants, use_embeddings, context, not_td>>

\* df.drop_duplicates(subset=["Tourist_Spot"]): the first row of each spot
DropDuplicateSpots(rows) ==
    Masked(rows,
           [i \in DOMAIN rows |->
               \A j \in DOMAIN rows :
                   (rows[j].Tourist_Spot = rows[i].Tourist_Spot)
                       => rows[j].index >= rows[i].index])

\* df.drop_duplicates(subset=["Name"]): the first row of each name
DropDuplicateNames(rows) ==
    Masked(rows,
           [i \in DOMAIN rows |->
               \A j \in DOMAIN rows :
                   (rows[j].Name = rows[i].Name) => rows[j].index >= rows[i].index])

\* lines 159-163: what the attractions may be before the re-ranking
AttractionCandidates(attractions_, boros, limit) ==
    LET rows == DropDuplicateSpots(_filter_boros(attractions_, boros).rows)
    IN  IF Len(rows) > limit THEN Samples(rows, limit) ELSE {rows}

AttractionTexts(rows) == [i \in DOMAIN rows |-> AttractionText(rows[i])]

\* data.pick_attractions(boros, limit)
PickAttractions(boros, limit) ==
    /\ td_call.op = "none"
    /\ \E rows \in AttractionCandidates(attractions, boros, limit) :
           Finish("pick_attractions", boros, None, limit, AttractionQuery(boros),
                  rows, AttractionTexts(rows))
    /\ UNCHANGED <<hotels, attractions, restaurants, use_embeddings, context, not_td>>

\* df.sort_values("Rating", ascending=False, na_position="last"): the default
\* sort on one key is not stable, so rows that tie come in any order
RatingSorted(rows) ==
    {p \in Samples(rows, Len(rows)) :
        \A i, j \in DOMAIN p : i < j => KeyOrder(p[i].Rating, p[j].Rating, FALSE) <= 0}

\* lines 187-199: what the restaurants may be before the re-ranking
RestaurantCandidates(restaurants_, boros, limit) ==
    {IF Len(sorted) > limit THEN HeadRows(sorted, limit) ELSE sorted :
        sorted \in RatingSorted(DropDuplicateNames(_filter_boros(restaurants_, boros).rows))}

RestaurantTexts(restaurants_, rows) ==
    LET rating_float ==
            FloatColumn([i \in DOMAIN restaurants_.rows |-> restaurants_.rows[i].Rating])
    IN  [i \in DOMAIN rows |-> RestaurantText(rows[i], rating_float)]

\* data.pick_restaurants(boros, limit)
PickRestaurants(boros, limit) ==
    /\ td_call.op = "none"
    /\ \E rows \in RestaurantCandidates(restaurants, boros, limit) :
           Finish("pick_restaurants", boros, None, limit, RestaurantQuery(boros),
                  rows, RestaurantTexts(restaurants, rows))
    /\ UNCHANGED <<hotels, attractions, restaurants, use_embeddings, context, not_td>>

(* the format methods and build_context *)

\* TravelData.format_hotels: one line per row,
\* f"- {name} ({boro}) | {star} stars | ${low_rate}-{high_rate} | {address}";
\* the tables have no address1 column, so the address is ""
format_hotels(rows, star_float, low_float, high_float) ==
    Join(<<"\n">>,
         [i \in DOMAIN rows |->
             <<"-", " ">> \o rows[i].name \o <<" ", "(">> \o StrText(rows[i].BoroName)
             \o <<")", " ", "|", " ">> \o StrNum(rows[i].star_rating, star_float)
             \o <<" ", "s", "t", "a", "r", "s", " ", "|", " ", "$">>
             \o StrNum(rows[i].low_rate, low_float) \o <<"-">>
             \o StrNum(rows[i].high_rate, high_float) \o <<" ", "|", " ">>])

\* TravelData.format_attractions: f"- {spot} ({boro}, {region}) at {addr}",
\* region and addr "" for tables without those columns
format_attractions(rows) ==
    Join(<<"\n">>,
         [i \in DOMAIN rows |->
             <<"-", " ">> \o rows[i].Tourist_Spot \o <<" ", "(">>
             \o StrText(rows[i].BoroName) \o <<",", " ">> \o <<")", " ", "a", "t", " ">>])

\* TravelData.format_restaurants: f"- {name} ({boro}) | rating {rating}{addr_text}"
format_restaurants(rows, rating_float) ==
    Join(<<"\n">>,
         [i \in DOMAIN rows |->
             <<"-", " ">> \o rows[i].Name \o <<" ", "(">> \o StrText(rows[i].BoroName)
             \o <<")", " ", "|", " ", "r", "a", "t", "i", "n", "g", " ">>
             \o StrNum(rows[i].Rating, rating_float)])

NoHotelsText ==
    <<"-", " ", "N", "o", " ", "m", "a", "t", "c", "h", "i", "n", "g", " ",
      "h", "o", "t", "e", "l", "s", ";", " ", "s", "u", "g", "g", "e", "s", "t", " ",
      "r", "e", "a", "s", "o", "n", "a", "b", "l", "e", " ", "o", "p", "t", "i", "o", "n", "s", ".">>
NoAttractionsText ==
    <<"-", " ", "N", "o", " ", "a", "t", "t", "r", "a", "c", "t", "i", "o", "n", "s", " ",
      "f", "o", "u", "n", "d", ";", " ", "s", "u", "g", "g", "e", "s", "t", " ",
      "i", "c", "o", "n", "i", "c", " ", "s", "i", "g", "h", "t", "s", ".">>
NoRestaurantsText ==
    <<"-", " ", "N", "o", " ", "r", "e", "s", "t", "a", "u", "r", "a", "n", "t", "s", " ",
      "f", "o", "u", "n", "d", ";", " ", "s", "u", "g", "g", "e", "s", "t", " ",
      "d", "e", "p", "e", "n", "d", "a", "b", "l", "e", " ", "p", "i", "c", "k", "s", ".">>

\* text or fallback
OrText(text, fallback) == IF text = <<>> THEN fallback ELSE text

\* chosen_boros = ", ".join(boros) if boros else "All boroughs"
ChosenBoros(boros) ==
    IF boros # <<>> THEN Join(Comma, boros)
    ELSE <<"A", "l", "l", " ", "b", "o", "r", "o", "u", "g", "h", "s">>

\* build_context(boros, budget, days, data), the backend answering bk[t] for
\* text t, for one choice of the candidates of the three methods.  The value
\* returned is the f-string over days, chosen_boros, budget_text and the three
\* texts; it is kept as the record of these parts, with the rows behind them.
build_context(boros, budget, days, hotel_rows, attraction_rows, restaurant_rows, bk) ==
    LET h == Tail_(use_embeddings, hotel_rows, HotelTexts(hotels, hotel_rows),
                   HotelQuery(boros, budget), _embedder.cache, bk, 6)
        a == Tail_(use_embeddings, attraction_rows, AttractionTexts(attraction_rows),
                   AttractionQuery(boros), h.cache, bk, Max(days * 3, 18))
        r == Tail_(use_embeddings, restaurant_rows,
                   RestaurantTexts(restaurants, restaurant_rows),
                   RestaurantQuery(boros), a.cache, bk, Max(days * 3, 18))
        rates == CoerceRates(_filter_boros(hotels, boros)).rows
    IN  [built |-> TRUE,
         days |-> days,
         chosen_boros |-> ChosenBoros(boros),
         budget_text |-> BudgetOrMedium(budget),
         hotels |-> h.rows,
         attractions |-> a.rows,
         restaurants |-> r.rows,
         hotel_text |->
             OrText(format_hotels(h.rows,
                        FloatColumn([i \in DOMAIN hotels.rows |-> hotels.rows[i].star_rating]),
                        FloatColumn([i \in DOMAIN rates |-> rates[i].low_rate]),
                        FloatColumn([i \in DOMAIN rates |-> rates[i].high_rate])),
                    NoHotelsText),
         attraction_text |-> OrText(format_attractions(a.rows), NoAttractionsText),
         restaurant_text |->
             OrText(format_restaurants(r.rows,
                        FloatColumn([i \in DOMAIN restaurants.rows |->
                                        restaurants.rows[i].Rating])),
                    NoRestaurantsText),
         cache |-> r.cache]

\* build_context(boros, budget, days, data): the three methods in turn on one
\* TravelData, the backend giving every text of the call the same answer
BuildContext(boros, budget, days) ==
    /\ td_call.op = "none"
    /\ IF HotelsRaise(hotels)
       THEN /\ td_call' = [NoTravelCall EXCEPT !.op = "build_context",
                              !.boros = boros, !.budget = budget,
                              !.raised = TRUE, !.exc = "KeyError"]
            /\ UNCHANGED <<_embedder, context>>
       ELSE \E hotel_rows \in HotelCandidates(hotels, boros, budget, 6),
               attraction_rows \in AttractionCandidates(attractions, boros, Max(days * 3, 18)),
               restaurant_rows \in RestaurantCandidates(restaurants, boros, Max(days * 3, 18)),
               outcome \in TravelOutcomes :
                LET texts == {HotelQuery(boros, budget), AttractionQuery(boros),
                              RestaurantQuery(boros)}
                             \cup {HotelTexts(hotels, hotel_rows)[i] : i \in DOMAIN hotel_rows}
                             \cup {AttractionTexts(attraction_rows)[i] :
                                      i \in DOMAIN attraction_rows}
                             \cup {RestaurantTexts(restaurants, restaurant_rows)[i] :
                                      i \in DOMAIN restaurant_rows}
                    c == build_context(boros, budget, days, hotel_rows, attraction_rows,
                                       restaurant_rows, [t \in texts |-> outcome])
                IN  /\ context' = [c EXCEPT !.cache = <<>>]
                    /\ _embedder' = [created |-> _embedder.created \/ use_embeddings,
                                     cache |-> c.cache]
                    /\ td_call' = [NoTravelCall EXCEPT !.op = "build_context",
                                      !.boros = boros, !.budget = budget]
    /\ UNCHANGED <<hotels, attractions, restaurants, use_embeddings, not_td>>

\* the days build_context is called with
DaysArgs == {1, 7}

\* the rows of the CSV files the model is run on
HotelRow(name, star, high, low, boro, tier) ==
    [index |-> 0, name |-> name, star_rating |-> Num(star), high_rate |-> high,
     low_rate |-> low, BoroName |-> Str(boro), budget_tier |-> tier]

HotelRows ==
    { HotelRow(<<"H", "1">>, 5, Num(150), Num(90), Manhattan, Str(<<"m", "e", "d", "i", "u", "m">>)),
      HotelRow(<<"H", "2">>, 3, NumText(99), NumText(50), Manhattan, Str(<<"m", "e", "d", "i", "u", "m">>)),
      HotelRow(<<"H", "3">>, 3, Text, Num(80), Queens, Str(<<"m", "e", "d", "i", "u", "m">>)),
      HotelRow(<<"H", "4">>, 5, Inf, Num(200), Queens, Str(<<"h", "i", "g", "h">>)),
      HotelRow(<<"H", "5">>, 3, Num(300), NaN, <<"M", "A", "N", "H", "A", "T", "T", "A", "N">>,
               Str(<<"l", "o", "w">>)) }

AttractionRows ==
    { [index |-> 0, Tourist_Spot |-> <<"A", "1">>, BoroName |-> Str(Manhattan)],
      [index |-> 0, Tourist_Spot |-> <<"A", "1">>, BoroName |-> Str(Queens)],
      [index |-> 0, Tourist_Spot |-> <<"A", "2">>, BoroName |-> None] }

RestaurantRows ==
    { [index |-> 0, Name |-> <<"R", "1">>, Rating |-> Num(4), BoroName |-> Str(Manhattan)],
      [index |-> 0, Name |-> <<"R", "2">>, Rating |-> Num(4), BoroName |-> Str(Queens)],
      [index |-> 0, Name |-> <<"R", "1">>, Rating |-> NaN, BoroName |-> Str(Queens)] }

\* read_csv numbers the rows from 0
WithIndex(rows) == [i \in DOMAIN rows |-> [rows[i] EXCEPT !.index = i - 1]]

Tables(row_set) == {WithIndex(rows) : rows \in SeqsUpTo(row_set, MaxRows)}

HotelAllColumns == {"name", "star_rating", "high_rate", "low_rate", "BoroName", "budget_tier"}
HotelColumnSets ==
    {HotelAllColumns, HotelAllColumns \ {"budget_tier"}, HotelAllColumns \ {"high_rate"}}
AttractionColumns == {"Tourist_Spot", "BoroName"}
RestaurantColumns == {"Name", "Rating", "BoroName"}

\* the arguments the methods are called with
BoroArgs ==
    { <<>>,
      <<(<<"m", "a", "n", "h", "a", "t", "t", "a", "n">>)>>,
      <<Bronx>>,
      <<Queens, Bronx>> }

BudgetArgs ==
    { Str(<<"m", "e", "d", "i", "u", "m">>),
      Str(<<"H", "I", "G", "H">>),
      Str(<<"l", "o", "w">>),
      Str(<<>>),
      None }

NextTravel ==
    \/ \E boros \in BoroArgs, budget \in BudgetArgs, limit \in 1..MaxLimit :
          HotelsForBudget(boros, budget, limit)
    \/ \E boros \in BoroArgs, limit \in 1..MaxLimit : PickAttractions(boros, limit)
    \/ \E boros \in BoroArgs, limit \in 1..MaxLimit : PickRestaurants(boros, limit)
    \/ \E boros \in BoroArgs, budget \in BudgetArgs, days \in DaysArgs :
          BuildContext(boros, budget, days)

---------------------------------------------------------------------------
(* generate_dataset.py: generate_nyc_hotel_dataset *)

\* A row of the raw hotel CSV once boro_from_point has answered for it: a
\* borough, or None for a point outside the five boroughs.
RawHotelRow(high, low, boro) ==
    [index |-> 0, name |-> <<"H">>, star_rating |-> Num(3), high_rate |-> high,
     low_rate |-> low, BoroName |-> boro, budget_tier |-> None]

RawHotelColumns == HotelAllColumns \ {"budget_tier"}

\* column > 0: false on a NaN
Positive(cell) == FloatLess(Num(0), cell)

\* _budget_tier(rate)
_budget_tier(rate) ==
    IF rate.kind = "nan" THEN None
    ELSE IF FloatLess(rate, Num(100)) THEN Str(<<"l", "o", "w">>)
    ELSE IF FloatLess(rate, Num(300)) THEN Str(<<"m", "e", "d", "i", "u", "m">>)
    ELSE Str(<<"h", "i", "g", "h">>)

\* generate_nyc_hotel_dataset: the rates made numeric, the hotels outside the
\* city dropped, the rates that are not above 0 dropped, the tier added
generate_nyc_hotel_dataset(raw) ==
    LET hotels_ == CoerceRates(raw)
        nyc == Masked(hotels_.rows,
                      [i \in DOMAIN hotels_.rows |-> ~hotels_.rows[i].BoroName.na])
        rated == Masked(nyc, [i \in DOMAIN nyc |-> /\ Positive(nyc[i].high_rate)
                                                    /\ Positive(nyc[i].low_rate)])
    IN  Df(HotelAllColumns,
           [i \in DOMAIN rated |->
               [rated[i] EXCEPT !.budget_tier = _budget_tier(rated[i].high_rate)]])

\* to_csv(output_path, index=False) and the read_csv of TravelData._load_csv:
\* the rows are numbered again from 0; a number and an infinity are written
\* and read back as they are
WriteReadCsv(df) == Df(df.cols, WithIndex(df.rows))

\* nyc_hotels = generate_nyc_hotel_dataset(raw_hotels)
GenerateDataset ==
    /\ ds_pc = "raw"
    /\ nyc_hotels' = generate_nyc_hotel_dataset(raw_hotels)
    /\ ds_pc' = "generated"
    /\ UNCHANGED <<raw_hotels, ds_query, not_ds>>

NoDatasetQuery == [budget |-> None, by_tier |-> <<>>, by_range |-> <<>>, selected |-> <<>>]

\* TravelData on the generated file and lines 93-106 of hotels_for_budget for
\* all boroughs: what the budget_tier filter keeps, what the high_rate filter
\* keeps, and what the two keep together
FilterGenerated(key) ==
    /\ ds_pc = "generated"
    /\ LET budget == Str(key)
           loaded == WriteReadCsv(nyc_hotels)
           df == CoerceRates(_filter_boros(loaded, <<>>))
           budget_key == BudgetKey(budget)
       IN  ds_query' = [budget |-> budget,
                        by_tier |-> TierFilter(df, budget_key).rows,
                        by_range |-> RangeFilter(df, BUDGET_TO_PRICE(budget_key)).rows,
                        selected |-> HotelsFiltered(loaded, <<>>, budget).rows]
    /\ ds_pc' = "queried"
    /\ UNCHANGED <<raw_hotels, nyc_hotels, not_ds>>

\* the rows of the raw hotel file the model is run on
RawHotelRows ==
    { RawHotelRow(Num(99), Num(50), Str(Manhattan)),
      RawHotelRow(Num(100), Num(50), Str(Manhattan)),
      RawHotelRow(Num(299), Num(50), Str(Queens)),
      RawHotelRow(Num(300), Num(50), Str(Manhattan)),
      RawHotelRow(NumText(150), NumText(50), Str(Bronx)),
      RawHotelRow(Text, Num(50), Str(Manhattan)),
      RawHotelRow(Num(0), Num(50), Str(Manhattan)),
      RawHotelRow(Num(150), NaN, Str(Manhattan)),
      RawHotelRow(Num(150), Num(50), None),
      RawHotelRow(Inf, Num(50), Str(Manhattan)) }

NextDataset ==
    \/ GenerateDataset
    \/ \E key \in BudgetKeys : FilterGenerated(key)

---------------------------------------------------------------------------
(* test_ollama.py: check_ollama *)

DefaultHost == <<"h", "t", "t", "p", ":", "/", "/", "1", "2", "7", ".", "0", ".", "0", ".", "1", ":", "1", "1", "4", "3", "4">>

\* str.rstrip("/")
RECURSIVE RStripSlash(_)
RStripSlash(s) ==
    IF s # <<>> /\ s[Len(s)] = "/" THEN RStripSlash(SubSeq(s, 1, Len(s) - 1)) ELSE s

\* base = host or os.environ.get("OLLAMA_HOST", "http://127.0.0.1:11434")
OllamaBase(host, env) ==
    IF OrEmpty(host) # <<>> THEN host.s
    ELSE IF env.na THEN DefaultHost
    ELSE env.s

\* url = f"{base.rstrip('/')}/api/tags"
ApiTagsUrl(base) == RStripSlash(base) \o <<"/", "a", "p", "i", "/", "t", "a", "g", "s">>

\* What the request meets.  reach: the connection is refused, the server
\* answers with an HTTP error status, the body stops arriving, or the body is
\* read.  The body is then bytes that are UTF-8 or not, text that is JSON or
\* not, and a JSON value: its type at the top, whether an object has the key
\* "models", the type of that value and, for a list, its entries.
Response(reach, utf8, json, top, has_models, models_type, models) ==
    [reach |-> reach, utf8 |-> utf8, json |-> json, top |-> top,
     has_models |-> has_models, models_type |-> models_type, models |-> models]

\* an entry of "models": a JSON object with or without "name", or a string
ModelEntry(type, has_name, name) == [type |-> type, has_name |-> has_name, name |-> name]

OllamaRaises(exc, url) ==
    [raised |-> TRUE, exc |-> exc, value |-> -1, available |-> <<>>, url |-> url]

OllamaReturns(value, available, url) ==
    [raised |-> FALSE, exc |-> "none", value |-> value, available |-> available, url |-> url]

\* check_ollama(host) with OLLAMA_HOST = env, the request meeting resp
check_ollama(host, env, resp) ==
    LET url == ApiTagsUrl(OllamaBase(host, env))
    IN  CASE resp.reach = "refused" -> OllamaReturns(1, <<>>, url)
          [] resp.reach = "http_error" -> OllamaReturns(1, <<>>, url)
          [] resp.reach = "read_timeout" -> OllamaRaises("TimeoutError", url)
          [] ~resp.utf8 -> OllamaRaises("UnicodeDecodeError", url)
          [] ~resp.json -> OllamaReturns(1, <<>>, url)
          [] resp.top # "object" -> OllamaRaises("AttributeError", url)
          [] ~resp.has_models -> OllamaReturns(0, <<>>, url)
          [] resp.models_type # "list" -> OllamaRaises("TypeError", url)
          [] \E i \in DOMAIN resp.models : resp.models[i].type # "object" ->
                OllamaRaises("AttributeError", url)
          [] OTHER ->
                OllamaReturns(0,
                              [i \in DOMAIN resp.models |->
                                  IF resp.models[i].has_name THEN resp.models[i].name ELSE ""],
                              url)

NotCalled == [raised |-> FALSE, exc |-> "none", value |-> -1, available |-> <<>>, url |-> <<>>]

CheckOllama ==
    /\ ol_pc = "call"
    /\ ol_ret' = check_ollama(ol_host, ol_env, server)
    /\ ol_pc' = "returned"
    /\ UNCHANGED <<ol_host, ol_env, server, not_ol>>

\* the host argument and the OLLAMA_HOST variable the model is run on
HostArgs == {None, Str(<<>>), Str(<<"h", "t", "t", "p", ":", "/", "/", "h", ":", "1", "/">>)}
HostEnvs == {None, Str(<<"h", "t", "t", "p", ":", "/", "/", "e", ":", "2">>)}

ModelEntries ==
    { ModelEntry("object", TRUE, "llama3"),
      ModelEntry("object", TRUE, "qwen"),
      ModelEntry("object", FALSE, ""),
      ModelEntry("string", FALSE, "") }

\* the ways the request can go
Responses ==
    { Response("refused", FALSE, FALSE, "none", FALSE, "none", <<>>),
      Response("http_error", FALSE, FALSE, "none", FALSE, "none", <<>>),
      Response("read_timeout", FALSE, FALSE, "none", FALSE, "none", <<>>),
      Response("ok", FALSE, FALSE, "none", FALSE, "none", <<>>),
      Response("ok", TRUE, FALSE, "none", FALSE, "none", <<>>),
      Response("ok", TRUE, TRUE, "array", FALSE, "none", <<>>),
      Response("ok", TRUE, TRUE, "string", FALSE, "none", <<>>),
      Response("ok", TRUE, TRUE, "null", FALSE, "none", <<>>),
      Response("ok", TRUE, TRUE, "object", FALSE, "none", <<>>),
      Response("ok", TRUE, TRUE, "object", TRUE, "null", <<>>),
      Response("ok", TRUE, TRUE, "object", TRUE, "number", <<>>) }
    \cup { Response("ok", TRUE, TRUE, "object", TRUE, "list", models) :
              models \in SeqsUpTo(ModelEntries, MaxModels) }

NextOllama == CheckOllama

---------------------------------------------------------------------------
(* app.py: the prompts and main *)

\* str.upper() on one character
UpperChar(c) ==
    IF \E i \in 1..26 : LowerLetters[i] = c
    THEN UpperLetters[CHOOSE i \in 1..26 : LowerLetters[i] = c]
    ELSE c

IsLetter(c) == \E i \in 1..26 : LowerLetters[i] = c \/ UpperLetters[i] = c

\* str.title(): the first letter of every run of letters in upper case, the
\* others in lower case
Title(s) ==
    [i \in DOMAIN s |->
        IF i = 1 \/ ~IsLetter(s[i - 1]) THEN UpperChar(s[i]) ELSE LowerChar(s[i])]

\* str.replace(c, "")
Remove(s, c) == Masked(s, [i \in DOMAIN s |-> s[i] # c])

\* str.replace(" ", "-")
Dashed(s) == [i \in DOMAIN s |-> IF s[i] = " " THEN "-" ELSE s[i]]

\* str.split(sep) for a separator of one character
RECURSIVE Split(_, _)
Split(s, sep) ==
    IF \E i \in DOMAIN s : s[i] = sep
    THEN LET i == CHOOSE i \in DOMAIN s : s[i] = sep /\ \A j \in 1..(i - 1) : s[j] # sep
         IN  <<SubSeq(s, 1, i - 1)>> \o Split(SubSeq(s, i + 1, Len(s)), sep)
    ELSE <<s>>

\* str.isdigit()
IsDigit(s) == s # <<>> /\ \A i \in DOMAIN s : \E d \in 1..10 : DigitChars[d] = s[i]

\* int(s) for a string of digits
RECURSIVE ParseInt(_)
ParseInt(s) ==
    IF s = <<>> THEN 0
    ELSE 10 * ParseInt(SubSeq(s, 1, Len(s) - 1))
         + (CHOOSE d \in 0..9 : DigitChars[d + 1] = s[Len(s)])

\* a dict as a sequence of <<key, value>> pairs: its keys and dict[key]
DictKeys(dict) == {dict[i][1] : i \in DOMAIN dict}
DictGet(dict, key) == dict[CHOOSE i \in DOMAIN dict : dict[i][1] = key][2]

\* One round of a prompt's loop on the line the user typed: the prompt
\* returns a value, or asks again.
Returns(value) == [returned |-> TRUE, value |-> value]
AsksAgain == [returned |-> FALSE, value |-> <<>>]

\* _prompt_days, its answer kept as str(days)
_prompt_days(line) ==
    LET raw == Strip(line)
    IN  IF raw = <<>> THEN AsksAgain
        ELSE IF IsDigit(raw) /\ 1 <= ParseInt(raw) /\ ParseInt(raw) <= 7
             THEN Returns(Digits(ParseInt(raw)))
             ELSE AsksAgain

valid_inputs == {Lower(k) : k \in AliasKeys} \cup {Lower(v) : v \in AliasValues}

\* parts = [p.strip() for p in raw.split(",") if p.strip()]
Parts(raw) ==
    LET pieces == Split(raw, ",")
        kept == Masked(pieces, [i \in DOMAIN pieces |-> Strip(pieces[i]) # <<>>])
    IN  [i \in DOMAIN kept |-> Strip(kept[i])]

\* _prompt_boroughs
_prompt_boroughs(line) ==
    LET raw == Strip(line)
        parts == Parts(raw)
        boros == normalize_boroughs([i \in DOMAIN parts |-> Str(parts[i])])
    IN  IF raw = <<>> \/ Lower(raw) = <<"a", "l", "l">> THEN Returns(<<>>)
        ELSE IF \E i \in DOMAIN parts : Lower(parts[i]) \notin valid_inputs THEN AsksAgain
        ELSE IF boros # <<>> THEN Returns(boros)
        ELSE AsksAgain

\* _prompt_budget
_prompt_budget(line) ==
    LET raw == Lower(Strip(line))
    IN  IF raw \in {<<"l", "o", "w">>, <<"m", "e", "d", "i", "u", "m">>, <<"h", "i", "g", "h">>} THEN Returns(raw) ELSE AsksAgain

month_aliases ==
    << <<(<<"j", "a", "n">>), <<"J", "a", "n", "u", "a", "r", "y">>>>,
       <<(<<"j", "a", "n", "u", "a", "r", "y">>), <<"J", "a", "n", "u", "a", "r", "y">>>>,
       <<(<<"f", "e", "b">>), <<"F", "e", "b", "r", "u", "a", "r", "y">>>>,
       <<(<<"f", "e", "b", "r", "u", "a", "r", "y">>), <<"F", "e", "b", "r", "u", "a", "r", "y">>>>,
       <<(<<"m", "a", "r">>), <<"M", "a", "r", "c", "h">>>>,
       <<(<<"m", "a", "r", "c", "h">>), <<"M", "a", "r", "c", "h">>>>,
       <<(<<"a", "p", "r">>), <<"A", "p", "r", "i", "l">>>>,
       <<(<<"a", "p", "r", "i", "l">>), <<"A", "p", "r", "i", "l">>>>,
       <<(<<"m", "a", "y">>), <<"M", "a", "y">>>>,
       <<(<<"j", "u", "n">>), <<"J", "u", "n", "e">>>>,
       <<(<<"j", "u", "n", "e">>), <<"J", "u", "n", "e">>>>,
       <<(<<"j", "u", "l">>), <<"J", "u", "l", "y">>>>,
       <<(<<"j", "u", "l", "y">>), <<"J", "u", "l", "y">>>>,
       <<(<<"a", "u", "g">>), <<"A", "u", "g", "u", "s", "t">>>>,
       <<(<<"a", "u", "g", "u", "s", "t">>), <<"A", "u", "g", "u", "s", "t">>>>,
       <<(<<"s", "e", "p">>), <<"S", "e", "p", "t", "e", "m", "b", "e", "r">>>>,
       <<(<<"s", "e", "p", "t">>), <<"S", "e", "p", "t", "e", "m", "b", "e", "r">>>>,
       <<(<<"s", "e", "p", "t", "e", "m", "b", "e", "r">>), <<"S", "e", "p", "t", "e", "m", "b", "e", "r">>>>,
       <<(<<"o", "c", "t">>), <<"O", "c", "t", "o", "b", "e", "r">>>>,
       <<(<<"o", "c", "t", "o", "b", "e", "r">>), <<"O", "c", "t", "o", "b", "e", "r">>>>,
       <<(<<"n", "o", "v">>), <<"N", "o", "v", "e", "m", "b", "e", "r">>>>,
       <<(<<"n", "o", "v", "e", "m", "b", "e", "r">>), <<"N", "o", "v", "e", "m", "b", "e", "r">>>>,
       <<(<<"d", "e", "c">>), <<"D", "e", "c", "e", "m", "b", "e", "r">>>>,
       <<(<<"d", "e", "c", "e", "m", "b", "e", "r">>), <<"D", "e", "c", "e", "m", "b", "e", "r">>>> >>

month_to_season ==
    << <<(<<"j", "a", "n", "u", "a", "r", "y">>), <<"w", "i", "n", "t", "e", "r">>>>,
       <<(<<"f", "e", "b", "r", "u", "a", "r", "y">>), <<"w", "i", "n", "t", "e", "r">>>>,
       <<(<<"m", "a", "r", "c", "h">>), <<"s", "p", "r", "i", "n", "g">>>>,
       <<(<<"a", "p", "r", "i", "l">>), <<"s", "p", "r", "i", "n", "g">>>>,
       <<(<<"m", "a", "y">>), <<"s", "p", "r", "i", "n", "g">>>>,
       <<(<<"j", "u", "n", "e">>), <<"s", "u", "m", "m", "e", "r">>>>,
       <<(<<"j", "u", "l", "y">>), <<"s", "u", "m", "m", "e", "r">>>>,
       <<(<<"a", "u", "g", "u", "s", "t">>), <<"s", "u", "m", "m", "e", "r">>>>,
       <<(<<"s", "e", "p", "t", "e", "m", "b", "e", "r">>), <<"f", "a", "l", "l">>>>,
       <<(<<"o", "c", "t", "o", "b", "e", "r">>), <<"f", "a", "l", "l">>>>,
       <<(<<"n", "o", "v", "e", "m", "b", "e", "r">>), <<"f", "a", "l", "l">>>>,
       <<(<<"d", "e", "c", "e", "m", "b", "e", "r">>), <<"w", "i", "n", "t", "e", "r">>>> >>

season_aliases ==
    << <<(<<"w", "i", "n", "t", "e", "r">>), <<"w", "i", "n", "t", "e", "r">>>>,
       <<(<<"s", "p", "r", "i", "n", "g">>), <<"s", "p", "r", "i", "n", "g">>>>,
       <<(<<"s", "u", "m", "m", "e", "r">>), <<"s", "u", "m", "m", "e", "r">>>>,
       <<(<<"f", "a", "l", "l">>), <<"f", "a", "l", "l">>>>,
       <<(<<"a", "u", "t", "u", "m", "n">>), <<"f", "a", "l", "l">>>> >>

\* _prompt_season
_prompt_season(line) ==
    LET raw == Lower(Strip(line))
        key == Remove(Remove(raw, "."), " ")
    IN  IF raw = <<>> THEN AsksAgain
        ELSE IF key \in DictKeys(season_aliases)
             THEN Returns(Title(DictGet(season_aliases, key)))
        ELSE IF key \in DictKeys(month_aliases)
             THEN LET month == DictGet(month_aliases, key)
                      season == DictGet(month_to_season, Lower(month))
                  IN  Returns(month \o <<" ", "(">> \o season \o <<")">>)
        ELSE AsksAgain

\* _prompt_pace
_prompt_pace(line) ==
    LET raw == Dashed(Lower(Strip(line)))
    IN  IF raw \in {<<"w", "a", "l", "k", "-", "h", "e", "a", "v", "y">>, <<"b", "a", "l", "a", "n", "c", "e", "d">>, <<"r", "i", "d", "e", "-", "f", "l", "e", "x", "i", "b", "l", "e">>}
        THEN Returns(raw)
        ELSE AsksAgain

\* A prompt read one line: on an answer main keeps it and goes on to what
\* follows the prompt, otherwise the prompt asks again.
Answered(prompt, answer, then) ==
    /\ IF answer.returned
       THEN /\ answers' = [answers EXCEPT ![prompt] = answer.value]
            /\ main_pc' = then
       ELSE UNCHANGED <<answers, main_pc>>
    /\ UNCHANGED <<data_files, main_run, not_mn>>

\* days = _prompt_days()
PromptDays(line) ==
    /\ main_pc = "days"
    /\ Answered("days", _prompt_days(line), "boroughs")

\* boros = _prompt_boroughs()
PromptBoroughs(line) ==
    /\ main_pc = "boroughs"
    /\ Answered("boroughs", _prompt_boroughs(line), "budget")

\* budget = _prompt_budget()
PromptBudget(line) ==
    /\ main_pc = "budget"
    /\ Answered("budget", _prompt_budget(line), "season")

\* season = _prompt_season()
PromptSeason(line) ==
    /\ main_pc = "season"
    /\ Answered("season", _prompt_season(line), "pace")

\* pace = _prompt_pace()
PromptPace(line) ==
    /\ main_pc = "pace"
    /\ Answered("pace", _prompt_pace(line), "run")

\* the files TravelData.__init__ loads, in the order it loads them
DataFileNames == <<"nyc_attractions.csv", "nyc_restaurants.csv", "nyc_hotel_encoded.csv">>

\* TravelData(): _load_csv raises FileNotFoundError for the first file missing
TravelDataLoads(files) == \A i \in DOMAIN DataFileNames : DataFileNames[i] \in files

\* A def's parameters: the positional ones in order, the keyword-only ones,
\* and those of the two kinds that have a default.
Signature(params, kwonly, defaults) ==
    [params |-> params, kwonly |-> kwonly, defaults |-> defaults]

\* def build_context(boros, budget, days, data)
BuildContextSignature == Signature(<<"boros", "budget", "days", "data">>, {}, {})

\* def _build_prompt(context, days, boros, budget, season, pace)
BuildPromptSignature ==
    Signature(<<"context", "days", "boros", "budget", "season", "pace">>, {}, {})

\* def chat_with_model(prompt, *, model=None, temperature=0.6)
ChatSignature == Signature(<<"prompt">>, {"model", "temperature"}, {"model", "temperature"})

\* Whether a call with npos positional arguments and the given keyword
\* arguments binds to the signature; Python raises TypeError when it does not:
\* too many positional arguments, a keyword that names no parameter or one
\* already given by position, or a parameter without default left without value.
Binds(sig, npos, keywords) ==
    LET by_position == {sig.params[i] : i \in 1..Min(npos, Len(sig.params))}
        names == {sig.params[i] : i \in DOMAIN sig.params} \cup sig.kwonly
    IN  /\ npos <= Len(sig.params)
        /\ keywords \subseteq names
        /\ keywords \cap by_position = {}
        /\ names \ (by_position \cup keywords) \subseteq sig.defaults

Run(stages, exc, chat_calls) == [stages |-> stages, exc |-> exc, chat_calls |-> chat_calls]

NotRun == Run(<<>>, "none", 0)

\* Lines 179-184 of main with the files of the data directory and the outcome
\* of ollama.chat: the stages completed, the exception that ended main
\* ("none" when it returned) and the number of calls of chat_with_model.
main(files, chat_raises) ==
    IF ~TravelDataLoads(files) THEN Run(<<>>, "FileNotFoundError", 0)
    ELSE IF ~Binds(BuildContextSignature, 4, {"season", "pace"})
         THEN Run(<<"load">>, "TypeError", 0)
    ELSE IF ~Binds(BuildPromptSignature, 6, {})
         THEN Run(<<"load", "filter", "format">>, "TypeError", 0)
    ELSE IF ~Binds(ChatSignature, 1, {})
         THEN Run(<<"load", "filter", "format", "prompt">>, "TypeError", 0)
    ELSE IF chat_raises
         THEN Run(<<"load", "filter", "format", "prompt">>, "RuntimeError", 1)
    ELSE Run(<<"load", "filter", "format", "prompt", "chat">>, "none", 1)

\* main from `data = TravelData()` to its end
RunPipeline ==
    /\ main_pc = "run"
    /\ \E chat_raises \in BOOLEAN : main_run' = main(data_files, chat_raises)
    /\ main_pc' = "exited"
    /\ UNCHANGED <<answers, data_files, not_mn>>

NoAnswers ==
    [days |-> <<>>, boroughs |-> <<>>, budget |-> <<>>, season |-> <<>>, pace |-> <<>>]

\* the lines the user types at the prompts
DaysLines == {<<>>, <<"0">>, <<"1">>, <<" ", "3", " ">>, <<"7">>, <<"8">>, <<"1", "2">>, <<"t", "w", "o">>}

BoroughLines ==
    { <<>>, <<" ", "A", "L", "L", " ">>, <<"M", "a", "n", "h", "a", "t", "t", "a", "n">>, <<"b", "r", "o", "n", "x", ",", " ", "q", "u", "e", "e", "n", "s">>, <<"S", "t", "a", "t", "e", "n", "_", "I", "s", "l", "a", "n", "d", ",", "b", "r", "o", "n", "x">>,
      <<"q", "u", "e", "e", "n", "s", ",", ",", "Q", "u", "e", "e", "n", "s">>, <<",">>, <<"h", "a", "r", "l", "e", "m">> }

BudgetLines == {<<"l", "o", "w">>, <<" ", "M", "e", "d", "i", "u", "m", " ">>, <<"H", "I", "G", "H">>, <<>>, <<"c", "h", "e", "a", "p">>}

SeasonLines == {<<>>, <<"M", "a", "r", "c", "h">>, <<"s", "e", "p", "t", ".">>, <<"a", "u", "t", "u", "m", "n">>, <<" ", "S", "u", "m", "m", "e", "r", " ">>, <<"s", "m", "a", "r", "c", "h">>}

PaceLines == {<<"b", "a", "l", "a", "n", "c", "e", "d">>, <<"W", "a", "l", "k", " ", "H", "e", "a", "v", "y">>, <<"r", "i", "d", "e", "-", "f", "l", "e", "x", "i", "b", "l", "e">>, <<"f", "a", "s", "t">>}

NextMain ==
    \/ \E line \in DaysLines : PromptDays(line)
    \/ \E line \in BoroughLines : PromptBoroughs(line)
    \/ \E line \in BudgetLines : PromptBudget(line)
    \/ \E line \in SeasonLines : PromptSeason(line)
    \/ \E line \in PaceLines : PromptPace(line)
    \/ RunPipeline

---------------------------------------------------------------------------
(* Specifications: one per part, the other parts idle *)

IdleNormalize ==
    /\ raw_boros = <<>>
    /\ ordered = <<>>
    /\ reordered = <<>>
    /\ nb_pc = "idle"

IdleEmbed ==
    /\ _cache = <<>>
    /\ requests = 0
    /\ succeeded = {}
    /\ embed_call = NoCall

IdleTopK ==
    /\ backend = <<>>
    /\ tk_query = ""
    /\ tk_items = <<>>
    /\ tk_k = 0
    /\ tk_ret = NoReturn
    /\ tk_pc = "idle"

IdleTravel ==
    /\ hotels = Df({}, <<>>)
    /\ attractions = Df({}, <<>>)
    /\ restaurants = Df({}, <<>>)
    /\ use_embeddings = FALSE
    /\ _embedder = [created |-> FALSE, cache |-> <<>>]
    /\ td_call = NoTravelCall
    /\ context = NoContext

IdleDataset ==
    /\ raw_hotels = Df({}, <<>>)
    /\ nyc_hotels = Df({}, <<>>)
    /\ ds_query = NoDatasetQuery
    /\ ds_pc = "idle"

IdleOllama ==
    /\ ol_host = None
    /\ ol_env = None
    /\ server = Response("refused", FALSE, FALSE, "none", FALSE, "none", <<>>)
    /\ ol_ret = NotCalled
    /\ ol_pc = "idle"

IdleMain ==
    /\ main_pc = "idle"
    /\ answers = NoAnswers
    /\ data_files = {}
    /\ main_run = NotRun

InitNormalize ==
    /\ raw_boros \in SeqsUpTo(RawBoroInputs, MaxBoros)
    /\ ordered = <<>>
    /\ reordered = <<>>
    /\ nb_pc = "input"
    /\ IdleEmbed
    /\ IdleTopK
    /\ IdleTravel
    /\ IdleDataset
    /\ IdleOllama
    /\ IdleMain

SpecNormalize == InitNormalize /\ [][NextNormalize]_vars

InitEmbed ==
    /\ IdleEmbed
    /\ IdleNormalize
    /\ IdleTopK
    /\ IdleTravel
    /\ IdleDataset
    /\ IdleOllama
    /\ IdleMain

SpecEmbed == InitEmbed /\ [][NextEmbed]_vars

InitTopK ==
    /\ backend \in [TopKTexts -> TopKOutcomes]
    /\ tk_query \in TopKTexts
    /\ tk_items \in SeqsUpTo(TopKTexts, MaxItems)
    /\ tk_k \in 0..MaxItems
    /\ tk_ret = NoReturn
    /\ tk_pc = "call"
    /\ IdleNormalize
    /\ IdleEmbed
    /\ IdleTravel
    /\ IdleDataset
    /\ IdleOllama
    /\ IdleMain

\* TravelData(data_dir, use_embeddings) on three CSV files, of which one has
\* rows and the other two only their header
InitTravel ==
    /\ \/ /\ hotels \in {Df(cols, rows) : cols \in HotelColumnSets, rows \in Tables(HotelRows)}
          /\ attractions = Df(AttractionColumns, <<>>)
          /\ restaurants = Df(RestaurantColumns, <<>>)
       \/ /\ hotels = Df(HotelAllColumns, <<>>)
          /\ attractions \in {Df(AttractionColumns, rows) : rows \in Tables(AttractionRows)}
          /\ restaurants = Df(RestaurantColumns, <<>>)
       \/ /\ hotels = Df(HotelAllColumns, <<>>)
          /\ attractions = Df(AttractionColumns, <<>>)
          /\ restaurants \in {Df(RestaurantColumns, rows) : rows \in Tables(RestaurantRows)}
    /\ use_embeddings \in BOOLEAN
    /\ _embedder = [created |-> FALSE, cache |-> <<>>]
    /\ td_call = NoTravelCall
    /\ context = NoContext
    /\ IdleNormalize
    /\ IdleEmbed
    /\ IdleTopK
    /\ IdleDataset
    /\ IdleOllama
    /\ IdleMain

SpecTravel == InitTravel /\ [][NextTravel]_vars

SpecTopK == InitTopK /\ [][NextTopK]_vars

\* a raw hotel file, before generate_nyc_hotel_dataset is run on it
InitDataset ==
    /\ raw_hotels \in {Df(RawHotelColumns, rows) : rows \in Tables(RawHotelRows)}
    /\ nyc_hotels = Df({}, <<>>)
    /\ ds_query = NoDatasetQuery
    /\ ds_pc = "raw"
    /\ IdleNormalize
    /\ IdleEmbed
    /\ IdleTopK
    /\ IdleTravel
    /\ IdleOllama
    /\ IdleMain

SpecDataset == InitDataset /\ [][NextDataset]_vars

\* check_ollama about to be called, for one way the request can go
InitOllama ==
    /\ ol_host \in HostArgs
    /\ ol_env \in HostEnvs
    /\ server \in Responses
    /\ ol_ret = NotCalled
    /\ ol_pc = "call"
    /\ IdleNormalize
    /\ IdleEmbed
    /\ IdleTopK
    /\ IdleTravel
    /\ IdleDataset
    /\ IdleMain

SpecOllama == InitOllama /\ [][NextOllama]_vars

\* main at its first prompt, for the files the data directory holds
InitMain ==
    /\ main_pc = "days"
    /\ answers = NoAnswers
    /\ data_files \in SUBSET {DataFileNames[i] : i \in DOMAIN DataFileNames}
    /\ main_run = NotRun
    /\ IdleNormalize
    /\ IdleEmbed
    /\ IdleTopK
    /\ IdleTravel
    /\ IdleDataset
    /\ IdleOllama

SpecMain == InitMain /\ [][NextMain]_vars

---------------------------------------------------------------------------
(* C1 *)

MethodOps == {"hotels_for_budget", "pick_attractions", "pick_restaurants"}

\* C1: when top_k_by_embedding raises inside hotels_for_budget,
\* pick_attractions or pick_restaurants (the backend failed on the query or on
\* an item), the method raises nothing and returns the candidate rows it had
\* before re-ranking, in the same order; this is what the method returns for
\* these candidates on a TravelData with use_embeddings false.
C1_GracefulDegradation ==
    /\ (td_call.op \in MethodOps /\ td_call.embedded /\ td_call.rerank_exc # "none") =>
          /\ ~td_call.raised
          /\ td_call.result = td_call.candidates
    /\ (td_call.op \in MethodOps /\ ~td_call.raised /\ ~use_embeddings) =>
          /\ ~td_call.embedded
          /\ td_call.result = td_call.candidates

\* the query was embedded, the request for an item failed, and the two
\* candidates came back as they were
C1_Witness ==
    /\ td_call.op = "hotels_for_budget"
    /\ td_call.embedded
    /\ td_call.rerank_exc = "RuntimeError"
    /\ DOMAIN _embedder.cache = {td_call.query}
    /\ Len(td_call.candidates) = 2
    /\ td_call.result = td_call.candidates
    /\ ~td_call.raised

---------------------------------------------------------------------------
(* C3 *)

\* the table a method reads
TableOf(op) ==
    CASE op = "hotels_for_budget" -> hotels
      [] op = "pick_attractions" -> attractions
      [] op = "pick_restaurants" -> restaurants

\* BoroName equals one of the requested boroughs, ignoring case
InRequested(row, boros) ==
    /\ ~row.BoroName.na
    /\ \E i \in DOMAIN boros : Lower(row.BoroName.s) = Lower(boros[i])

\* C3 as claimed: for a non-empty list of requested boroughs, every row
\* returned by hotels_for_budget, pick_attractions and pick_restaurants, and
\* every hotel of the context, has a BoroName equal (ignoring case) to one of
\* the requested boroughs.
C3_Original ==
    /\ (td_call.op \in MethodOps /\ ~td_call.raised /\ td_call.boros # <<>>) =>
          \A i \in DOMAIN td_call.result : InRequested(td_call.result[i], td_call.boros)
    /\ (context.built /\ td_call.boros # <<>>) =>
          \A i \in DOMAIN context.hotels : InRequested(context.hotels[i], td_call.boros)

\* C3 as amended: the same, for a table that has at least one row in a
\* requested borough; when it has none, _filter_boros falls back to the whole
\* table and the rows returned lie in other boroughs.
C3_GeographicFilter ==
    /\ (/\ td_call.op \in MethodOps /\ ~td_call.raised /\ td_call.boros # <<>>
        /\ \E i \in DOMAIN TableOf(td_call.op).rows :
              InRequested(TableOf(td_call.op).rows[i], td_call.boros)) =>
          \A i \in DOMAIN td_call.result : InRequested(td_call.result[i], td_call.boros)
    /\ (/\ context.built /\ td_call.boros # <<>>
        /\ \E i \in DOMAIN hotels.rows : InRequested(hotels.rows[i], td_call.boros)) =>
          \A i \in DOMAIN context.hotels : InRequested(context.hotels[i], td_call.boros)

\* a table with a hotel in MANHATTAN and one in Queens was asked for
\* "manhattan", and the hotel of MANHATTAN alone came back
C3_Witness ==
    /\ td_call.op = "hotels_for_budget"
    /\ td_call.boros = <<(<<"m", "a", "n", "h", "a", "t", "t", "a", "n">>)>>
    /\ Len(hotels.rows) = 2
    /\ \E i \in DOMAIN hotels.rows : hotels.rows[i].BoroName = Str(Queens)
    /\ Len(td_call.result) = 1
    /\ td_call.result[1].BoroName = Str(<<"M", "A", "N", "H", "A", "T", "T", "A", "N">>)

---------------------------------------------------------------------------
(* C4 *)

\* rate lies in the range the claim gives for the budget key
InClaimedRange(key, rate) ==
    CASE key = <<"l", "o", "w">> -> 0 <= rate /\ rate < 100
      [] key = <<"m", "e", "d", "i", "u", "m">> -> 100 <= rate /\ rate < 300
      [] key = <<"h", "i", "g", "h">> -> 300 <= rate

\* the cell parses as a finite number
IsNumber(cell) == cell.kind \in {"num", "numtext"}

\* C4: for a budget that is low, medium or high in any letter case, every
\* hotel hotels_for_budget returns has, in the table, a high_rate that is a
\* number inside the range of that budget (low [0,100), medium [100,300),
\* high [300,inf)) and, when the table has a budget_tier column, a
\* budget_tier equal to the lower-cased budget; a hotel whose high_rate is
\* missing or not a number is never returned.
C4_BudgetFilter ==
    (/\ td_call.op = "hotels_for_budget" /\ ~td_call.raised
     /\ Lower(OrEmpty(td_call.budget)) \in BudgetKeys) =>
        \A i \in DOMAIN td_call.result :
            LET row == hotels.rows[td_call.result[i].index + 1]
                key == Lower(OrEmpty(td_call.budget))
            IN  /\ IsNumber(row.high_rate)
                /\ InClaimedRange(key, row.high_rate.val)
                /\ td_call.result[i].high_rate = Num(row.high_rate.val)
                /\ "budget_tier" \in hotels.cols => row.budget_tier = Str(key)

\* a table with a budget_tier column, a medium hotel at 150 and a hotel
\* whose rate is not a number, asked for "medium": the hotel at 150 came back
C4_Witness ==
    /\ td_call.op = "hotels_for_budget"
    /\ td_call.budget = Str(<<"m", "e", "d", "i", "u", "m">>)
    /\ "budget_tier" \in hotels.cols
    /\ Len(hotels.rows) = 2
    /\ \E i \in DOMAIN hotels.rows : hotels.rows[i].high_rate = Text
    /\ Len(td_call.result) = 1
    /\ td_call.result[1].high_rate = Num(150)

---------------------------------------------------------------------------
(* C10 *)

\* C10: when budget is empty or None, build_context reports the budget as
\* medium, the hotel query says "medium budget", and hotels_for_budget draws
\* the hotels from the candidates it has for the budget "medium".
C10_MissingBudgetIsMedium ==
    /\ (context.built /\ OrEmpty(td_call.budget) = <<>>) =>
          context.budget_text = <<"m", "e", "d", "i", "u", "m">>
    /\ (td_call.op = "hotels_for_budget" /\ ~td_call.raised
        /\ OrEmpty(td_call.budget) = <<>>) =>
          /\ td_call.query = HotelQuery(td_call.boros, Str(<<"m", "e", "d", "i", "u", "m">>))
          /\ td_call.candidates \in
                HotelCandidates(hotels, td_call.boros,
                                Str(<<"m", "e", "d", "i", "u", "m">>), td_call.limit)

---------------------------------------------------------------------------
(* C5 *)

\* the similarity of item idx (from 0) to the query, from the backend's vectors
ItemScore(idx) ==
    cosine_similarity(backend[tk_query].vec, backend[tk_items[idx + 1]].vec)

\* C5: when top_k_by_embedding returns for n items and k >= 0, it returns
\* exactly min(k, n) pairwise distinct indices in 0..n-1, in non-increasing
\* order of similarity to the query, and no index left out has a strictly
\* higher similarity than one returned.
C5_TopKSorted ==
    (tk_pc = "returned" /\ ~tk_ret.raised /\ tk_k >= 0) =>
        LET n == Len(tk_items)
            idxs == tk_ret.idxs
            returned == {idxs[i] : i \in DOMAIN idxs}
        IN  /\ Len(idxs) = Min(tk_k, n)
            /\ returned \subseteq 0..(n - 1)
            /\ \A i, j \in DOMAIN idxs : i # j => idxs[i] # idxs[j]
            /\ \A i, j \in DOMAIN idxs :
                  i < j => ~SimLess(ItemScore(idxs[i]), ItemScore(idxs[j]))
            /\ \A out \in (0..(n - 1)) \ returned : \A in \in returned :
                  ~SimLess(ItemScore(in), ItemScore(out))

\* three items whose similarities are 0, 1 and in between were ranked and the
\* best two returned, best first
C5_Witness ==
    /\ tk_pc = "returned"
    /\ ~tk_ret.raised
    /\ Len(tk_items) = 3
    /\ tk_k = 2
    /\ tk_ret.idxs = <<1, 2>>
    /\ SimLess(ItemScore(0), ItemScore(2))
    /\ SimLess(ItemScore(2), ItemScore(1))

---------------------------------------------------------------------------
(* C6 *)

Labels == {Manhattan, Brooklyn, Queens, Bronx, StatenIsland}

\* the label an entry stands for, <<>> when it stands for none
Recognised(boro) ==
    /\ ~boro.na
    /\ \E i \in DOMAIN BOROUGH_ALIASES : BOROUGH_ALIASES[i][1] = Lower(Strip(boro.s))

LabelOf(boro) ==
    BOROUGH_ALIASES[CHOOSE i \in DOMAIN BOROUGH_ALIASES :
                        BOROUGH_ALIASES[i][1] = Lower(Strip(boro.s))][2]

FirstIndex(raw, label) ==
    CHOOSE i \in DOMAIN raw :
        /\ Recognised(raw[i]) /\ LabelOf(raw[i]) = label
        /\ \A j \in 1..(i - 1) : ~(Recognised(raw[j]) /\ LabelOf(raw[j]) = label)

\* C6: every element of normalize_boroughs' output is one of the five labels;
\* the output holds exactly the labels of the entries that match an alias
\* ignoring case and surrounding whitespace (blank, None and unrecognised
\* entries add nothing); it has no duplicates and lists the labels in the
\* order of their first occurrence in the input; and normalize_boroughs
\* applied to its own output returns that output.
C6_NormalizeBoroughs ==
    /\ nb_pc \in {"normalized", "renormalized"} =>
          /\ \A i \in DOMAIN ordered : ordered[i] \in Labels
          /\ {ordered[i] : i \in DOMAIN ordered}
                = {LabelOf(raw_boros[i]) :
                      i \in {j \in DOMAIN raw_boros : Recognised(raw_boros[j])}}
          /\ \A i, j \in DOMAIN ordered : i # j => ordered[i] # ordered[j]
          /\ \A i, j \in DOMAIN ordered :
                i < j => FirstIndex(raw_boros, ordered[i]) < FirstIndex(raw_boros, ordered[j])
    /\ nb_pc = "renormalized" => reordered = ordered

\* a padded upper-case entry, a duplicate and a dropped entry were normalised,
\* and the output was normalised again
C6_Witness ==
    /\ nb_pc = "renormalized"
    /\ Len(raw_boros) = 3
    /\ raw_boros[1] = Str(<<" ", "B", "R", "O", "N", "X", " ">>)
    /\ raw_boros[2] = None
    /\ raw_boros[3] = Str(Bronx)
    /\ ordered = <<Bronx>>

---------------------------------------------------------------------------
(* C7 *)

\* C7: on one client, the cache holds exactly the texts whose backend request
\* succeeded with a non-empty vector; embed of a text already in the cache
\* returns the cached vector and makes no backend request; an embed that raises
\* leaves the cache as it was, and an embed that does not raise on a text that
\* was not cached adds exactly that text.
C7_EmbedMemoized ==
    /\ DOMAIN _cache = succeeded
    /\ [][ /\ DOMAIN _cache' = succeeded'
           /\ embed_call'.op = "embed" =>
                LET text == embed_call'.texts[1]
                IN  /\ text \in DOMAIN _cache =>
                          /\ ~embed_call'.raised
                          /\ embed_call'.vecs = <<_cache[text]>>
                          /\ requests' = requests
                          /\ _cache' = _cache
                    /\ embed_call'.raised => _cache' = _cache
                    /\ (text \notin DOMAIN _cache /\ ~embed_call'.raised) =>
                          /\ requests' = requests + 1
                          /\ DOMAIN _cache' = DOMAIN _cache \cup {text}
                          /\ _cache'[text] = embed_call'.vecs[1]
                          /\ \A t \in DOMAIN _cache : _cache'[t] = _cache[t]
         ]_vars

\* a text was embedded, a request for another text failed, and the first
\* text was then answered from the cache without asking the backend
C7_Witness ==
    /\ embed_call.op = "embed"
    /\ embed_call.texts = <<"t1">>
    /\ embed_call.asked = <<>>
    /\ ~embed_call.raised
    /\ embed_call.vecs = <<(<<1, 0>>)>>
    /\ DOMAIN _cache = {"t1"}
    /\ requests = 2

---------------------------------------------------------------------------
(* C9 *)

\* rate lies in the half-open range BUDGET_TO_PRICE gives for key
InPriceRange(rate, key) ==
    /\ FloatGeq(rate, BUDGET_TO_PRICE(key)[1])
    /\ FloatLess(rate, BUDGET_TO_PRICE(key)[2])

\* C9: the budget_tier generate_nyc_hotel_dataset writes for a hotel is the
\* one key of BUDGET_TO_PRICE whose half-open range contains the hotel's
\* high_rate, and on the generated dataset the budget_tier filter and the
\* high_rate filter of hotels_for_budget keep the same rows.
C9_TiersAgree ==
    /\ ds_pc \in {"generated", "queried"} =>
          \A i \in DOMAIN nyc_hotels.rows :
              LET row == nyc_hotels.rows[i]
              IN  /\ ~row.budget_tier.na
                  /\ row.budget_tier.s \in BudgetKeys
                  /\ \A key \in BudgetKeys :
                        InPriceRange(row.high_rate, key) <=> key = row.budget_tier.s
    /\ ds_pc = "queried" => ds_query.by_tier = ds_query.by_range

---------------------------------------------------------------------------
(* C2 *)

\* C2: main calls chat_with_model at most once; and when the three data files
\* are present, main, once the five prompts are answered, runs the stages
\* load, filter, format and prompt in this order with none of them failing,
\* and then calls chat_with_model exactly once.
C2_LinearPipeline ==
    /\ main_run.chat_calls <= 1
    /\ (main_pc = "exited" /\ TravelDataLoads(data_files)) =>
          /\ main_run.exc \in {"none", "RuntimeError"}
          /\ Len(main_run.stages) >= 4
          /\ SubSeq(main_run.stages, 1, 4) = <<"load", "filter", "format", "prompt">>
          /\ main_run.chat_calls = 1

---------------------------------------------------------------------------
(* C8 *)

\* C8: check_ollama raises nothing and returns 0 or 1, and it returns 0 only
\* when the server answered with a body that parses as JSON.
C8_ReturnsZeroOrOne ==
    ol_pc = "returned" =>
        /\ ~ol_ret.raised
        /\ ol_ret.value \in {0, 1}
        /\ ol_ret.value = 0 => (server.reach = "ok" /\ server.utf8 /\ server.json)

===========================================================================
